---- MODULE Spec2Model ----
(***************************************************************************)
(* Model of pyarmor's command line front end, src/src/cli/__main__.py:     *)
(* main / main_entry, log_settings, log_exception, cmd_gen,                *)
(* format_gen_args, check_gen_context and _cmd_gen_key.                    *)
(*                                                                         *)
(* Python values: None is the empty tuple <<>>, any other value v of an    *)
(* argparse attribute is the one-element tuple <<v>>.  A mapping (dict,    *)
(* Namespace) is a function whose DOMAIN is its set of keys.  An exception *)
(* is a record [type, msg]; msg is the tuple of the constructor arguments. *)
(***************************************************************************)
EXTENDS Integers, Sequences, FiniteSets, TLC

VARIABLES
    pc,          \* position of the single control thread inside main()
    pyver,       \* sys.version_info[:2] of the running interpreter
    args,        \* result of parser.parse_args(argv)
    ctx,         \* the Context of the invocation
    env,         \* what the file system and the engine answer to the handlers
    rootLevel,   \* level of the root logger
    debugHandler,\* TRUE once log_settings attached the debug FileHandler
    console,     \* records the root StreamHandler has emitted
    debugLog,    \* records the debug FileHandler has emitted
    errorLog,    \* pyarmor.error.log: <<>> while absent, else <<records>>
    exc,         \* the exception in flight or last raised
    stages,      \* stages of the invocation entered so far, in order
    engine,      \* what has been asked of the generation engine (Builder)
    options,     \* the mapping under construction / returned by format_gen_args
    stdout,      \* what print / print_help wrote
    exitStatus   \* process exit status, -1 while running

vars == <<pc, pyver, args, ctx, env, rootLevel, debugHandler, console,
          debugLog, errorLog, exc, stages, engine, options, stdout,
          exitStatus>>

----------------------------------------------------------------------------
(* Python values *)

None == <<>>
Some(v) == <<v>>
Val(o) == o[1]
\* truth value of an attribute that holds None or a list / a string / True
TruthyList(o) == o # None /\ Val(o) # <<>>
TruthyStr(o) == o # None /\ Val(o) # ""
TruthyBool(o) == o # None /\ Val(o)

EmptyDict == [k \in {} |-> None]
Put(d, k, v) == [x \in (DOMAIN d) \cup {k} |-> IF x = k THEN v ELSE d[x]]
Get(d, k, default) == IF k \in DOMAIN d THEN d[k] ELSE default
Update(d, e) == [x \in (DOMAIN d) \cup (DOMAIN e) |-> IF x \in DOMAIN e THEN e[x] ELSE d[x]]

NoExc == [type |-> "None", msg |-> <<>>]
CliError(m) == [type |-> "CliError", msg |-> m]
Raised(e) == e.type # "None"

(* logging levels *)
DEBUG == 10
INFO == 20
WARNING == 30
ERROR == 40
CRITICAL == 50
SILENT == 100

(* exit statuses *)
Success == 0
UsageStatus == 2
UnknownFailureStatus == 2

----------------------------------------------------------------------------
(* gen_parser: the attributes of the Namespace of the generation command *)

GenDests ==
    {"output", "pack", "no_runtime", "recursive", "findall", "includes",
     "excludes", "obf_module", "obf_code", "no_wrap", "mix_str", "mix_name",
     "enable_bcc", "enable_rft", "enable_jit", "enable_themida",
     "assert_call", "assert_import", "enables", "restrict_module",
     "relative_import", "relative", "platforms", "outer", "expired",
     "period", "devices", "bind_interp", "hook", "inputs"}

\* the value argparse stores for a flag that is not on the command line
GenDefault(d) == IF d = "no_runtime" THEN Some(FALSE) ELSE None

\* the flags given on a command line: a mapping from attribute to the value
\* argparse stores for it; every other attribute keeps its default
gen_parser(given) ==
    [d \in GenDests |-> IF d \in DOMAIN given THEN Some(given[d]) ELSE GenDefault(d)]

\* --pack and --no-runtime are one mutually exclusive group
ParseFails(given) == "pack" \in DOMAIN given /\ "no_runtime" \in DOMAIN given

----------------------------------------------------------------------------
(* format_gen_args *)

AllowList ==
    <<"recursive", "findall", "inputs", "output", "no_runtime",
      "enable_bcc", "enable_jit", "enable_rft", "enable_themida",
      "obj_module", "obf_code", "assert_import", "assert_call",
      "mix_name", "mix_str", "relative_import", "restrict_module",
      "platforms", "outer", "period", "expired", "devices">>

RECURSIVE CopyLoop(_, _, _)
\* lines 73-80: getattr(args, x) raises AttributeError for a name that is
\* no attribute of the Namespace
CopyLoop(ns, i, opts) ==
    IF i > Len(AllowList) THEN [exc |-> NoExc, options |-> opts]
    ELSE LET x == AllowList[i] IN
         IF x \notin DOMAIN ns
         THEN [exc |-> [type |-> "AttributeError", msg |-> <<x>>], options |-> opts]
         ELSE CopyLoop(ns, i + 1, IF ns[x] # None THEN Put(opts, x, Val(ns[x])) ELSE opts)

\* 'enable_' + x for the choices of --enable
EnableKey(x) ==
    CASE x = "jit" -> "enable_jit"
      [] x = "bcc" -> "enable_bcc"
      [] x = "rft" -> "enable_rft"
      [] x = "themida" -> "enable_themida"

RECURSIVE EnableLoop(_, _, _)
EnableLoop(names, i, opts) ==
    IF i > Len(names) THEN opts
    ELSE EnableLoop(names, i + 1, Put(opts, EnableKey(names[i]), TRUE))

\* ' '.join(patterns)
Join(patterns) == [sep |-> " ", parts |-> patterns]

\* lines 82-99, applied to the mapping the copy loop built
Derive(ns, o0) ==
    LET o1 == IF Get(o0, "restrict_module", 0) > 1 THEN Put(o0, "mix_name", 1) ELSE o0
        o2 == IF TruthyList(ns["enables"]) THEN EnableLoop(Val(ns["enables"]), 1, o1) ELSE o1
        o3 == IF TruthyStr(ns["relative"]) THEN Put(o2, "relative_import", Val(ns["relative"])) ELSE o2
        o4 == IF TruthyBool(ns["no_wrap"]) THEN Put(o3, "wrap_mode", 0) ELSE o3
        o5 == IF TruthyList(ns["includes"]) THEN Put(o4, "includes", Join(Val(ns["includes"]))) ELSE o4
        o6 == IF TruthyList(ns["excludes"]) THEN Put(o5, "excludes", Join(Val(ns["excludes"]))) ELSE o5
    IN o6

format_gen_args(ns) ==
    LET r == CopyLoop(ns, 1, EmptyDict) IN
    IF Raised(r.exc) THEN r ELSE [exc |-> NoExc, options |-> Derive(ns, r.options)]

----------------------------------------------------------------------------
(* Context: the per-invocation state container (cli/context.py) *)

WinPlatform == "windows.x86_64"
LinuxPlatform == "linux.x86_64"
Platforms == {WinPlatform, LinuxPlatform}

\* name.startswith('win')
StartsWithWin(name) == name \in {WinPlatform}

DefaultKeyId == "pyarmor.rkey"
RuntimeKeyFile == ".pyarmor.ikey"

\* Context(home): persisted settings cfg, no invocation overrides yet
Context(home, cfg, native) ==
    [home |-> home, cfg |-> cfg, cmd_options |-> EmptyDict,
     native_platform |-> native, runtime_keyid |-> DefaultKeyId,
     runtime_keyfile |-> RuntimeKeyFile]

\* ctx.push(options): overrides are layered over the existing ones
Push(c, opts) == [c EXCEPT !.cmd_options = Update(c.cmd_options, opts)]

\* accessors: an invocation override wins over the persisted setting
runtime_outer(c) ==
    IF "outer" \in DOMAIN c.cmd_options THEN Some(c.cmd_options["outer"]) ELSE c.cfg.outer
runtime_platforms(c) ==
    IF "platforms" \in DOMAIN c.cmd_options THEN Some(c.cmd_options["platforms"])
    ELSE c.cfg.platforms
enable_themida(c) ==
    IF "enable_themida" \in DOMAIN c.cmd_options THEN c.cmd_options["enable_themida"]
    ELSE c.cfg.enable_themida
\* family of the target platform, the native platform when none is configured
pyarmor_platform(c) ==
    IF TruthyList(runtime_platforms(c)) THEN Val(runtime_platforms(c))[1]
    ELSE c.native_platform

----------------------------------------------------------------------------
(* check_gen_context *)

MsgThemida == <<"--enable_themida only works for Windows">>
MsgNoRuntime == <<"--no_runtime need pass outer key by --outer">>
MsgNoKeyIn(outer) == <<"no runtime key in \"%s\"", outer>>
MsgNoOuterKey(outer) ==
    <<"no outer key \"%s\" found, please generated it by \"pyarmor gen key\"", outer>>

\* f: what os.path.exists and ctx.read_outer_info answer
check_gen_context(c, f) ==
    IF /\ TruthyList(runtime_platforms(c))
       /\ enable_themida(c)
       /\ ~StartsWithWin(pyarmor_platform(c))
    THEN CliError(MsgThemida)
    ELSE IF "no_runtime" \notin DOMAIN c.cmd_options
    THEN [type |-> "KeyError", msg |-> <<"no_runtime">>]
    ELSE IF c.cmd_options["no_runtime"] /\ ~TruthyStr(runtime_outer(c))
    THEN CliError(MsgNoRuntime)
    ELSE IF TruthyStr(runtime_outer(c))
    THEN IF f.outer_exists
         THEN IF ~f.key_exists
              THEN CliError(MsgNoKeyIn(Val(runtime_outer(c))))
              ELSE NoExc
         ELSE IF ~f.info_found
              THEN CliError(MsgNoOuterKey(Val(runtime_outer(c))))
              ELSE NoExc
    ELSE NoExc

----------------------------------------------------------------------------
(* the generation engine (Builder) as seen by the handlers *)

NoEngine ==
    [builder |-> FALSE, keygen |-> None, runtime |-> None,
     process |-> FALSE, files |-> {}]
EngineFailure == [type |-> "RuntimeError", msg |-> <<"engine">>]

\* a log record: its level and its message
Rec(level, text) == [level |-> level, kind |-> "msg", text |-> text]
\* logger.error(e), log.exception(e): the message is the exception
ExcRec(level, e, trace) == [level |-> level, kind |-> "exc", exc |-> e, traceback |-> trace]

\* os.path.join(output, name)
PathJoin(output, name) == <<output, name>>

\* result of a handler: the exception it raised, the engine afterwards and
\* the records it logged
Result(e, g, l) == [exc |-> e, engine |-> g, logs |-> l]

MsgTooMany(inputs) == <<"too many args %s", Tail(inputs)>>

\* _cmd_gen_key with the surplus test off by one (n > 3)
cmd_gen_key_loose(c, g, opts, engineOk) ==
    LET inputs == opts["inputs"]
        n == Len(inputs)
        keyname == IF n = 1 THEN c.runtime_keyid ELSE inputs[2]
        target == PathJoin(Get(opts, "output", "dist"), keyname)
    IN  IF n > 3 THEN Result(CliError(MsgTooMany(inputs)), g, <<>>)
        ELSE IF ~engineOk
        THEN Result(EngineFailure, [g EXCEPT !.keygen = Some(keyname)], <<>>)
        ELSE Result(NoExc,
                    [g EXCEPT !.keygen = Some(keyname), !.files = @ \cup {target}],
                    <<>>)

_cmd_gen_key(c, g, opts, engineOk) ==
    LET inputs == opts["inputs"]
        n == Len(inputs)
        keyname == IF n = 1 THEN c.runtime_keyid ELSE inputs[2]
        output == Get(opts, "output", "dist")
        target == PathJoin(output, keyname)
        l1 == <<Rec(INFO, "start to generate outer runtime key")>>
    IN  IF n > 2 THEN Result(CliError(MsgTooMany(inputs)), g, <<>>)
        ELSE IF ~engineOk
        THEN Result(EngineFailure, [g EXCEPT !.keygen = Some(keyname)], l1)
        ELSE Result(NoExc,
                    [g EXCEPT !.keygen = Some(keyname), !.files = @ \cup {target}],
                    l1 \o <<Rec(INFO, "write"), Rec(INFO, "generate outer runtime key OK")>>)

_cmd_gen_runtime(c, g, opts, engineOk) ==
    LET inputs == opts["inputs"]
        output == Get(opts, "output", "dist")
        keyname == PathJoin(output, c.runtime_keyfile)
        l1 == <<Rec(INFO, "start to generate runtime package")>>
    IN  IF Len(inputs) > 1 THEN Result(CliError(MsgTooMany(inputs)), g, <<>>)
        ELSE IF ~engineOk
        THEN Result(EngineFailure, [g EXCEPT !.runtime = Some(output)], l1)
        ELSE Result(NoExc,
                    [g EXCEPT !.runtime = Some(output), !.files = @ \cup {keyname}],
                    l1 \o <<Rec(INFO, "write"), Rec(INFO, "generate runtime package OK")>>)

\* args.inputs[0].lower()
Lower(t) == CASE t = "KEY" -> "key" [] OTHER -> t

\* builder.process(options, pack=args.pack)
Process(g, engineOk) ==
    Result(IF engineOk THEN NoExc ELSE EngineFailure, [g EXCEPT !.process = TRUE], <<>>)

----------------------------------------------------------------------------
(* cmd_gen: the stages it enters, and what it leaves behind *)

GenResult(e, c, g, o, st, l) ==
    [exc |-> e, ctx |-> c, engine |-> g, options |-> o, stages |-> st, logs |-> l]

\* cmd_gen overlaying the Context before the options are normalized
cmd_gen_push_first(c, ns, f) ==
    LET r == format_gen_args(ns) IN
    GenResult(r.exc, Push(c, r.options), NoEngine, r.options,
              <<"overlay", "normalize">>, <<>>)

cmd_gen_run(c, ns, f) ==
    LET r == format_gen_args(ns)
        c1 == Push(c, r.options)
        v == check_gen_context(c1, f)
        g == [NoEngine EXCEPT !.builder = TRUE]
        tok == Lower(Val(ns["inputs"])[1])
        h == IF tok \in {"key", "k"} THEN _cmd_gen_key(c1, g, r.options, f.engine_ok)
             ELSE IF tok \in {"runtime", "run", "r"}
             THEN _cmd_gen_runtime(c1, g, r.options, f.engine_ok)
             ELSE Process(g, f.engine_ok)
        dbg == <<Rec(DEBUG, "command options")>>
    IN  IF Raised(r.exc)
        THEN GenResult(r.exc, c, NoEngine, r.options, <<"normalize">>, <<>>)
        ELSE IF Raised(v)
        THEN GenResult(v, c1, NoEngine, r.options,
                       <<"normalize", "overlay", "validate">>, dbg)
        ELSE GenResult(h.exc, c1, h.engine, r.options,
                       <<"normalize", "overlay", "validate", "dispatch">>,
                       dbg \o h.logs)

----------------------------------------------------------------------------
(* logging *)

\* the records of recs a logger whose effective level is lvl passes on
Enabled(recs, lvl) == SelectSeq(recs, LAMBDA r : r.level >= lvl)

PointerRec == Rec(CRITICAL, "unknown error, please check pyarmor.error.log")

\* log_exception(e) under root level lvl: the 'Pyarmor' and 'Pyarmor.Error'
\* loggers set no level of their own, so both take the root logger's
log_exception(e, lvl) ==
    [emitted |-> Enabled(<<PointerRec>>, lvl),
     errorLog |-> Some(Enabled(<<ExcRec(ERROR, e, TRUE)>>, lvl))]

----------------------------------------------------------------------------
(* the command lines and environments the model runs *)

OptFlag(k, vals) == {EmptyDict} \cup {Put(EmptyDict, k, v) : v \in vals}
Both(A, B) == {Update(a, b) : a \in A, b \in B}

GenInputs == {<<"foo.py">>, <<"key">>, <<"KEY", "a", "b">>}

\* the flags of a "gen" command line
GenGiven ==
    Both({Put(EmptyDict, "inputs", i) : i \in GenInputs},
    Both(OptFlag("no_runtime", {TRUE}),
    Both(OptFlag("pack", {"bundle"}),
    Both(OptFlag("recursive", {TRUE}),
    Both(OptFlag("obf_module", {0, 1}),
    Both(OptFlag("mix_name", {TRUE}),
    Both(OptFlag("restrict_module", {1, 2}),
         OptFlag("outer", {"k1"}))))))))

Funcs == {"none", "cmd_gen", "cmd_cfg", "cmd_reg"}

Top(v, q, d, i, h) ==
    [version |-> v, silent |-> q, debug |-> d, interactive |-> i, home |-> h]

\* -q and -d in every combination, and -v, -i, --home each on its own
TopFlags ==
    {Top(FALSE, q, d, FALSE, None) : q \in BOOLEAN, d \in BOOLEAN}
    \cup {Top(TRUE, FALSE, FALSE, FALSE, None), Top(FALSE, FALSE, FALSE, TRUE, None),
          Top(FALSE, FALSE, FALSE, FALSE, Some("/opt/pyarmor"))}

Namespace(top, func, ns) ==
    [version |-> top.version, silent |-> top.silent, debug |-> top.debug,
     interactive |-> top.interactive, home |-> top.home, func |-> func, ns |-> ns]

NoArgs == Namespace(Top(FALSE, FALSE, FALSE, FALSE, None), "none", EmptyDict)

PyVersions == {<<3, 11>>, <<3, 6>>}

NoCfg == [outer |-> None, platforms |-> None, enable_themida |-> FALSE]

\* the machines the command runs on: PYARMOR_HOME, the persisted settings
\* and the native platform
Hosts ==
    {[env |-> None, cfg |-> NoCfg, native |-> LinuxPlatform],
     [env |-> Some("/env/pyarmor"),
      cfg |-> [outer |-> Some("k0"), platforms |-> None, enable_themida |-> TRUE],
      native |-> WinPlatform]}

\* os.path.exists(ctx.runtime_outer), os.path.exists(keyname), whether
\* ctx.read_outer_info finds the key, whether the engine call returns
NoEnv ==
    [outer_exists |-> FALSE, key_exists |-> FALSE, info_found |-> FALSE,
     engine_ok |-> TRUE]
EnvFacts ==
    [outer_exists : BOOLEAN, key_exists : BOOLEAN, info_found : BOOLEAN,
     engine_ok : BOOLEAN]

\* what a collaborator outside this file (Configer, Register) may do
Outcomes == {NoExc, CliError(<<"rejected">>), EngineFailure}

----------------------------------------------------------------------------
(* get_home *)

\* os.path.abspath(os.path.expandvars(os.path.expanduser(home)))
AbsPath(h) == <<"abspath", h>>

\* environ: os.getenv('PYARMOR_HOME')
get_home(home, environ) ==
    LET h1 == IF TruthyStr(home) THEN home ELSE environ
        h2 == IF ~TruthyStr(h1) THEN PathJoin("~", ".pyarmor") ELSE <<Val(h1)>>
    IN AbsPath(h2)

----------------------------------------------------------------------------
(* main and main_entry *)

Init ==
    /\ pc = "main"
    /\ pyver \in PyVersions
    /\ args = NoArgs
    /\ ctx = Context(None, NoCfg, LinuxPlatform)
    /\ env = NoEnv
    /\ rootLevel = WARNING
    /\ debugHandler = FALSE
    /\ console = <<>>
    /\ debugLog = <<>>
    /\ errorLog = None
    /\ exc = NoExc
    /\ stages = <<>>
    /\ engine = NoEngine
    /\ options = EmptyDict
    /\ stdout = <<>>
    /\ exitStatus = -1

\* the 'Pyarmor' logger hands recs to the handlers of the root logger
Log(recs) ==
    /\ console' = console \o Enabled(recs, rootLevel)
    /\ debugLog' = IF debugHandler THEN debugLog \o Enabled(recs, rootLevel) ELSE debugLog

\* main, line 525
main_basicConfig ==
    /\ pc = "main"
    /\ rootLevel' = INFO
    /\ pc' = "parse"
    /\ UNCHANGED <<pyver, args, ctx, env, debugHandler, console, debugLog, errorLog,
                   exc, stages, engine, options, stdout, exitStatus>>

\* main_entry, lines 494-495; an argparse error leaves through SystemExit(2)
parse_args ==
    /\ pc = "parse"
    /\ \E top \in TopFlags, func \in Funcs :
         \E given \in (IF func = "cmd_gen" THEN GenGiven ELSE {EmptyDict}) :
            IF func = "cmd_gen" /\ ParseFails(given)
            THEN /\ exitStatus' = UsageStatus
                 /\ pc' = "exit"
                 /\ stdout' = Append(stdout, "usage")
                 /\ UNCHANGED args
            ELSE /\ args' = Namespace(top, func,
                                      IF func = "cmd_gen" THEN gen_parser(given) ELSE EmptyDict)
                 /\ pc' = "guard"
                 /\ UNCHANGED <<exitStatus, stdout>>
    /\ stages' = Append(stages, "parse")
    /\ UNCHANGED <<pyver, ctx, env, rootLevel, debugHandler, console, debugLog,
                   errorLog, exc, engine, options>>

\* main_entry, lines 497-498
python_guard ==
    /\ pc = "guard"
    /\ IF pyver[1] = 2 \/ pyver[2] < 7
       THEN /\ exc' = CliError(<<"only Python 3.7+ is supported now">>)
            /\ pc' = "except"
       ELSE /\ pc' = "resolve"
            /\ UNCHANGED exc
    /\ UNCHANGED <<pyver, args, ctx, env, rootLevel, debugHandler, console, debugLog,
                   errorLog, stages, engine, options, stdout, exitStatus>>

\* main_entry, lines 500-501
resolve_context ==
    /\ pc = "resolve"
    /\ \E host \in Hosts :
         ctx' = Context(get_home(args.home, host.env), host.cfg, host.native)
    /\ stages' = Append(stages, "resolve")
    /\ pc' = "log_settings"
    /\ UNCHANGED <<pyver, args, env, rootLevel, debugHandler, console, debugLog,
                   errorLog, exc, engine, options, stdout, exitStatus>>

\* log_settings, lines 457-466
log_settings ==
    /\ pc = "log_settings"
    /\ rootLevel' = IF args.silent THEN SILENT
                    ELSE IF args.debug THEN DEBUG ELSE rootLevel
    /\ debugHandler' = args.debug
    /\ pc' = "run"
    /\ UNCHANGED <<pyver, args, ctx, env, console, debugLog, errorLog, exc, stages,
                   engine, options, stdout, exitStatus>>

\* main_entry, lines 505-507: parser.exit() leaves through SystemExit(0)
print_version ==
    /\ pc = "run"
    /\ args.version
    /\ stdout' = Append(stdout, "version")
    /\ exitStatus' = Success
    /\ pc' = "exit"
    /\ UNCHANGED <<pyver, args, ctx, env, rootLevel, debugHandler, console, debugLog,
                   errorLog, exc, stages, engine, options>>

\* main_entry, lines 509-510
interactive_shell ==
    /\ pc = "run"
    /\ ~args.version /\ args.interactive
    /\ pc' = "return"
    /\ UNCHANGED <<pyver, args, ctx, env, rootLevel, debugHandler, console, debugLog,
                   errorLog, exc, stages, engine, options, stdout, exitStatus>>

\* main_entry, lines 512-516
log_banner ==
    /\ pc = "run"
    /\ ~args.version /\ ~args.interactive
    /\ Log(<<Rec(INFO, "Python"), Rec(INFO, "Pyarmor"),
             Rec(DEBUG, "native platform"), Rec(DEBUG, "home path")>>)
    /\ pc' = "dispatch"
    /\ UNCHANGED <<pyver, args, ctx, env, rootLevel, debugHandler, errorLog, exc,
                   stages, engine, options, stdout, exitStatus>>

\* main_entry, line 519 with args.func = cmd_gen, lines 125-140
cmd_gen ==
    /\ pc = "dispatch"
    /\ args.func = "cmd_gen"
    /\ \E f \in EnvFacts :
         LET r == cmd_gen_run(ctx, args.ns, f) IN
         /\ exc' = r.exc
         /\ ctx' = r.ctx
         /\ engine' = r.engine
         /\ options' = r.options
         /\ stages' = stages \o r.stages
         /\ Log(r.logs)
         /\ pc' = IF Raised(r.exc) THEN "except" ELSE "return"
    /\ UNCHANGED <<pyver, args, env, rootLevel, debugHandler, errorLog, stdout,
                   exitStatus>>

\* main_entry, line 519 with args.func = cmd_cfg, lines 143-147
cmd_cfg ==
    /\ pc = "dispatch"
    /\ args.func = "cmd_cfg"
    /\ \E e \in Outcomes : exc' = e /\ pc' = IF Raised(e) THEN "except" ELSE "return"
    /\ UNCHANGED <<pyver, args, ctx, env, rootLevel, debugHandler, console, debugLog,
                   errorLog, stages, engine, options, stdout, exitStatus>>

\* main_entry, line 519 with args.func = cmd_reg, lines 150-161
cmd_reg ==
    /\ pc = "dispatch"
    /\ args.func = "cmd_reg"
    /\ \E e \in Outcomes :
         /\ exc' = e
         /\ pc' = IF Raised(e) THEN "except" ELSE "return"
         /\ Log(IF Raised(e) THEN <<>> ELSE <<Rec(INFO, "registration")>>)
    /\ UNCHANGED <<pyver, args, ctx, env, rootLevel, debugHandler, errorLog, stages,
                   engine, options, stdout, exitStatus>>

\* main_entry, lines 520-521
print_help ==
    /\ pc = "dispatch"
    /\ args.func = "none"
    /\ stdout' = Append(stdout, "help")
    /\ pc' = "return"
    /\ UNCHANGED <<pyver, args, ctx, env, rootLevel, debugHandler, console, debugLog,
                   errorLog, exc, stages, engine, options, exitStatus>>

\* main, lines 536-539: every Exception takes this one branch
main_except ==
    /\ pc = "except"
    /\ LET r == log_exception(exc, rootLevel) IN
         /\ errorLog' = r.errorLog
         /\ console' = console \o r.emitted \o Enabled(<<ExcRec(ERROR, exc, FALSE)>>, rootLevel)
         /\ debugLog' = IF debugHandler
                        THEN debugLog \o r.emitted
                                      \o Enabled(<<ExcRec(ERROR, exc, FALSE)>>, rootLevel)
                        ELSE debugLog
    /\ exitStatus' = UnknownFailureStatus
    /\ pc' = "exit"
    /\ UNCHANGED <<pyver, args, ctx, env, rootLevel, debugHandler, exc, stages, engine,
                   options, stdout>>

\* main_entry returned: the interpreter exits with status 0
main_return ==
    /\ pc = "return"
    /\ exitStatus' = Success
    /\ pc' = "exit"
    /\ UNCHANGED <<pyver, args, ctx, env, rootLevel, debugHandler, console, debugLog,
                   errorLog, exc, stages, engine, options, stdout>>

Next ==
    \/ main_basicConfig
    \/ parse_args
    \/ python_guard
    \/ resolve_context
    \/ log_settings
    \/ print_version
    \/ interactive_shell
    \/ log_banner
    \/ cmd_gen
    \/ cmd_cfg
    \/ cmd_reg
    \/ print_help
    \/ main_except
    \/ main_return

Spec == Init /\ [][Next]_vars

----------------------------------------------------------------------------
(* check_gen_context on its own: every Context the overlay can leave *)

\* the overrides of a Context after ctx.push(options): no_runtime is always
\* there (it is copied whenever it is not None), the others only when given
PushedOptions ==
    Both({Put(EmptyDict, "no_runtime", b) : b \in BOOLEAN},
    Both(OptFlag("outer", {"k1"}),
    Both(OptFlag("platforms", {<<WinPlatform>>, <<LinuxPlatform>>}),
         OptFlag("enable_themida", {TRUE}))))

PersistedCfgs ==
    [outer : {None, Some("k0")}, platforms : {None, Some(<<LinuxPlatform>>)},
     enable_themida : BOOLEAN]

InitCheck ==
    /\ pc = "check"
    /\ pyver = <<3, 11>>
    /\ args = NoArgs
    /\ \E o \in PushedOptions, cfg \in PersistedCfgs, native \in Platforms :
         ctx = Push(Context(AbsPath(<<"/opt/pyarmor">>), cfg, native), o)
    /\ env \in EnvFacts
    /\ rootLevel = INFO
    /\ debugHandler = FALSE
    /\ console = <<>>
    /\ debugLog = <<>>
    /\ errorLog = None
    /\ exc = NoExc
    /\ stages = <<>>
    /\ engine = NoEngine
    /\ options = EmptyDict
    /\ stdout = <<>>
    /\ exitStatus = -1

\* cmd_gen, line 131
call_check_gen_context ==
    /\ pc = "check"
    /\ exc' = check_gen_context(ctx, env)
    /\ pc' = "checked"
    /\ UNCHANGED <<pyver, args, ctx, env, rootLevel, debugHandler, console, debugLog,
                   errorLog, stages, engine, options, stdout, exitStatus>>

NextCheck == call_check_gen_context

SpecCheck == InitCheck /\ [][NextCheck]_vars

----------------------------------------------------------------------------
(* _cmd_gen_key on its own: every options mapping of a "gen key" request *)

MaxExtra == 3
KeyTokens == {"key", "k"}
ExtraTokens == {"a", "b"}

\* the positional tokens: the key token, then up to MaxExtra more
KeyInputs ==
    UNION {{<<k>> \o x : k \in KeyTokens, x \in [1..n -> ExtraTokens]} : n \in 0..MaxExtra}

KeyOptions ==
    Both({Put(EmptyDict, "inputs", i) : i \in KeyInputs}, OptFlag("output", {"out"}))

InitKey ==
    /\ pc = "key"
    /\ pyver = <<3, 11>>
    /\ args = NoArgs
    /\ \E native \in Platforms :
         ctx = Context(AbsPath(<<"/opt/pyarmor">>), NoCfg, native)
    /\ env \in {e \in EnvFacts : ~e.outer_exists /\ ~e.key_exists /\ ~e.info_found}
    /\ rootLevel = INFO
    /\ debugHandler = FALSE
    /\ console = <<>>
    /\ debugLog = <<>>
    /\ errorLog = None
    /\ exc = NoExc
    /\ stages = <<>>
    /\ engine = [NoEngine EXCEPT !.builder = TRUE]
    /\ options \in KeyOptions
    /\ stdout = <<>>
    /\ exitStatus = -1

\* cmd_gen, line 136
call_cmd_gen_key ==
    /\ pc = "key"
    /\ LET r == _cmd_gen_key(ctx, engine, options, env.engine_ok) IN
         /\ exc' = r.exc
         /\ engine' = r.engine
         /\ Log(r.logs)
    /\ pc' = "key_done"
    /\ UNCHANGED <<pyver, args, ctx, env, rootLevel, debugHandler, errorLog, stages,
                   options, stdout, exitStatus>>

NextKey == call_cmd_gen_key

SpecKey == InitKey /\ [][NextKey]_vars

----------------------------------------------------------------------------
(* Properties *)

Range(q) == {q[i] : i \in 1..Len(q)}
IsPrefix(q, t) == Len(q) <= Len(t) /\ \A i \in 1..Len(q) : q[i] = t[i]

\* cmd_gen has run in this invocation
GenRan == args.func = "cmd_gen" /\ "normalize" \in Range(stages)
\* the exception in flight left format_gen_args
NormalizeRaised == Raised(exc) /\ stages[Len(stages)] = "normalize"
\* the flag an entry of the options mapping stands for
FlagOf(k) == IF k = "wrap_mode" THEN "no_wrap" ELSE k
Supplied(ns, k) == FlagOf(k) \in DOMAIN ns /\ ns[FlagOf(k)] # GenDefault(FlagOf(k))
\* the allow-list under the names the argument schema gives the flags
SchemaAllowList == (Range(AllowList) \ {"obj_module"}) \cup {"obf_module"}
\* the console records of error severity or above
Severe(recs) == SelectSeq(recs, LAMBDA r : r.level >= ERROR)
\* the forensic log holding the full detail of e
FullDetail(e) == Some(<<ExcRec(ERROR, e, TRUE)>>)

\* C1: a CliError raised inside main_entry is logged at error severity on the
\* console, the process exits with the expected-failure status, which is not
\* the unknown-failure status, and pyarmor.error.log is not written.
C1_ExpectedFailure ==
    (pc = "exit" /\ exc.type = "CliError") =>
        /\ \E i \in 1..Len(console) : console[i] = ExcRec(ERROR, exc, FALSE)
        /\ exitStatus # UnknownFailureStatus
        /\ exitStatus # Success
        /\ errorLog = None

\* C2: an exception that is not a usage error leaves its full detail in the
\* forensic log, exactly one summary line (the pointer) on the console, and
\* the unknown-failure exit status.
C2_UnexpectedFailure ==
    (pc = "exit" /\ Raised(exc) /\ exc.type # "CliError") =>
        /\ errorLog = FullDetail(exc)
        /\ Severe(console) = <<PointerRec>>
        /\ exitStatus = UnknownFailureStatus

\* C3: whatever the silent and debug flags, an unexpected error raised after
\* log_settings has run is recorded with its full detail in pyarmor.error.log.
C3_ForensicLogIgnoresVerbosity ==
    (pc = "exit" /\ "resolve" \in Range(stages) /\ Raised(exc) /\ exc.type # "CliError")
        => errorLog = FullDetail(exc)

\* C4: the mapping of format_gen_args has an entry only for a flag that was
\* given on the command line.
C4_OnlySuppliedFlags ==
    GenRan => \A k \in DOMAIN options : Supplied(args.ns, k)

\* C5: format_gen_args returns normally for every accepted flag set, and every
\* allow-list flag that was given is in the mapping with the value given.
C5_AllowListCopied ==
    GenRan =>
        /\ ~NormalizeRaised
        /\ \A k \in SchemaAllowList :
              args.ns[k] # None => (k \in DOMAIN options /\ options[k] = Val(args.ns[k]))

\* C6: restrict level 2 always yields a true mix_name entry; with any other
\* restrict level mix_name is in the mapping only if --mix-name was given.
C6_RestrictForcesMixName ==
    GenRan =>
        IF args.ns["restrict_module"] = Some(2)
        THEN "mix_name" \in DOMAIN options /\ options["mix_name"] = 1
        ELSE ("mix_name" \in DOMAIN options) <=> (args.ns["mix_name"] # None)

\* C7: a generation request with --no-runtime and no outer key configured ends
\* with the usage error that names the missing outer key, and the engine is
\* never invoked.
C7_NoRuntimeNeedsOuter ==
    (/\ pc = "exit" /\ GenRan
     /\ args.ns["no_runtime"] = Some(TRUE)
     /\ args.ns["outer"] = None
     /\ ctx.cfg.outer = None)
        => (exc = CliError(MsgNoRuntime) /\ engine = NoEngine)

\* C8: with themida enabled, check_gen_context raises a usage error whenever the
\* target platform (the native one when none is configured) is not Windows.
C8_ThemidaNeedsWindows ==
    (pc = "checked" /\ enable_themida(ctx) /\ ~StartsWithWin(pyarmor_platform(ctx)))
        => exc.type = "CliError"

\* C9: the key handler rejects two or more extra tokens with a usage error that
\* lists them, calling neither the key generator nor a file write; one extra
\* token is the key name; with none the key name is ctx.runtime_keyid; when the
\* generator returns, the key is written to <output>/<key name> and the handler
\* succeeds.
C9_KeyHandler ==
    pc = "key_done" =>
        LET inputs == options["inputs"]
            extra == Len(inputs) - 1
            keyname == IF extra = 0 THEN ctx.runtime_keyid ELSE inputs[2]
            output == IF "output" \in DOMAIN options THEN options["output"] ELSE "dist"
        IN  IF extra >= 2
            THEN /\ exc.type = "CliError"
                 /\ exc.msg[2] = SubSeq(inputs, 2, Len(inputs))
                 /\ engine.keygen = None
                 /\ engine.files = {}
            ELSE /\ engine.keygen = Some(keyname)
                 /\ env.engine_ok => (exc = NoExc /\ engine.files = {<<output, keyname>>})
                 /\ ~env.engine_ok => (Raised(exc) /\ engine.files = {})

\* the handler has rejected two extra tokens, and has written a key under the
\* default identifier
C9_Witness ==
    /\ pc = "key_done"
    /\ Len(options["inputs"]) = 3
    /\ exc.type = "CliError"
    /\ engine.keygen = None

StageOrder == <<"parse", "resolve", "normalize", "overlay", "validate", "dispatch">>
ClaimedOrder == <<"parse", "normalize", "resolve", "overlay", "validate", "dispatch">>

\* C10 as stated: the stages of a generate invocation are entered in the order parse,
\* normalize, resolve, overlay, validate, dispatch.
C10_NormalizeBeforeResolve == args.func = "cmd_gen" => IsPrefix(stages, ClaimedOrder)

\* C10: the stages of an invocation are entered in the order parse, resolve,
\* normalize, overlay, validate, dispatch, each after the one before it, and
\* once a stage has raised no further stage is entered.
C10_StageOrder ==
    /\ [](IsPrefix(stages, StageOrder))
    /\ [][Raised(exc) => stages' = stages]_vars

\* a generate invocation that was parsed, resolved its Context, failed in
\* normalization and entered no later stage
C10_Witness ==
    /\ pc = "exit"
    /\ GenRan
    /\ Raised(exc)
    /\ stages = <<"parse", "resolve", "normalize">>

====
